---- MODULE Spec2Model ----
(***************************************************************************)
(* A model of excel_to_mysql_migration.py (class ExcelToMySQLMigrator).    *)
(*                                                                         *)
(* Three specifications share one set of variables:                        *)
(*   SpecName   clean_table_name and the column-name cleaning of           *)
(*              migrate_sheet_to_table, applied once and then again;       *)
(*   SpecInfer  infer_mysql_type / create_dtype_dict on one column;        *)
(*   Spec       migrate_all over a workbook and a destination database,    *)
(*              run once and then run again on the same workbook.          *)
(* A specification leaves the variables of the other two at their idle     *)
(* values.                                                                 *)
(***************************************************************************)
EXTENDS Integers, Sequences, FiniteSets, TLC

VARIABLES
    \* SpecName
    label,          \* the raw sheet or column label, a sequence of characters
    kind,           \* "table" | "column" | "idle"
    names,          \* the names produced so far: <<>>, <<n1>>, <<n1, n2>>
    raised,         \* TRUE once a sanitization raised (IndexError)
    \* SpecInfer
    series,         \* the column: [label, dtype, values]
    column_types_mapping,   \* self.column_types_mapping: name -> descriptor
    dtype_dict,     \* the result: <<>> or <<[name, type, via]>>
    \* Spec
    pc,             \* position in migrate_all / migrate_sheet_to_table
    workbook,       \* the sheets in workbook order: [name, rows]
    idx,            \* index of the sheet the for loop is at
    written,        \* rows of the current sheet inserted so far by to_sql
    db,             \* destination: table name -> row count, or NoTable
    stats,          \* the stats dict of migrate_all
    outcome,        \* what migrate_sheet_to_table printed for each sheet
    rerun,          \* FALSE in the first run of the script, TRUE in the second
    firstRun        \* the outcome vector of the first run, kept for the second

nameVars  == <<label, kind, names, raised>>
inferVars == <<series, column_types_mapping, dtype_dict>>
migVars   == <<pc, workbook, idx, written, db, stats, outcome, rerun, firstRun>>
vars      == <<label, kind, names, raised, series, column_types_mapping,
               dtype_dict, pc, workbook, idx, written, db, stats, outcome,
               rerun, firstRun>>

Min(a, b) == IF a < b THEN a ELSE b

\* ------------------------------------------------------------------------
\* Characters.  A character is a one-element token; the tokens below stand
\* for the classes of characters that Python's str methods tell apart.
\*   "a" "i" "t" "b" "l" "e"  lowercase ASCII letters
\*   "A"       an uppercase ASCII letter
\*   "7"       a decimal digit                  "_"  underscore
\*   " "       space                            "-"  hyphen
\*   "\t"      whitespace other than space      "$"  other punctuation
\*   "U+00E9"  e-acute: a non-ASCII lowercase letter (isalnum() is True)
\*   "U+0130"  capital I with dot above: isalnum() is True and lower() yields
\*             the two characters "i" and U+0307
\*   "U+0307"  combining dot above: isalnum() is False
\* ------------------------------------------------------------------------
Alphabet == {"a", "A", "7", "_", " ", "-", "\t", "$", "U+00E9", "U+0130"}

isspace(c) == c \in {" ", "\t"}

isdigit(c) == c = "7"

LowerLetters == {"a", "i", "t", "b", "l", "e"}

isalnum(c) == c \in LowerLetters \cup {"A", "7", "U+00E9", "U+0130"}

\* str.lower() of one character: a sequence, because U+0130 lowercases to two.
LowerChar(c) ==
    CASE c = "A"      -> <<"a">>
      [] c = "U+0130" -> <<"i", "U+0307">>
      [] OTHER        -> <<c>>

RECURSIVE lower(_)
lower(s) == IF s = <<>> THEN <<>> ELSE LowerChar(Head(s)) \o lower(Tail(s))

RECURSIVE lstrip(_)
lstrip(s) == IF s /= <<>> /\ isspace(Head(s)) THEN lstrip(Tail(s)) ELSE s

RECURSIVE rstrip(_)
rstrip(s) ==
    IF s /= <<>> /\ isspace(s[Len(s)]) THEN rstrip(SubSeq(s, 1, Len(s) - 1)) ELSE s

strip(s) == rstrip(lstrip(s))

\* str.replace for a one-character pattern
replace(s, old, new) == [i \in 1..Len(s) |-> IF s[i] = old THEN new ELSE s[i]]

\* MySQL's identifier limit, the slice bound of clean_table_name
MaxIdentLen == 64

TablePrefix == <<"t", "a", "b", "l", "e", "_">>

\* clean_table_name raises IndexError on table_name[0] when nothing is left
\* of the sheet name after strip()
clean_table_name_raises(sheet_name) == strip(sheet_name) = <<>>

clean_table_name(sheet_name) ==
    LET t1 == replace(replace(strip(sheet_name), " ", "_"), "-", "_")
        t2 == [i \in 1..Len(t1) |->
                  IF isalnum(t1[i]) \/ t1[i] = "_" THEN t1[i] ELSE "_"]
        t3 == IF isdigit(t2[1]) THEN TablePrefix \o t2 ELSE t2
        t4 == lower(t3)
    IN  SubSeq(t4, 1, Min(MaxIdentLen, Len(t4)))

\* the list comprehension that cleans df.columns
clean_column_name(col) == replace(replace(strip(col), " ", "_"), "-", "_")

\* ------------------------------------------------------------------------
\* SpecName: a label is sanitized, and the name it yields is sanitized again.
\* ------------------------------------------------------------------------
MaxHead == 2

Heads == UNION {[1..n -> Alphabet] : n \in 0..MaxHead}

PadChars == {"a", "7", "U+0130"}

PadLens == {58, 63, 64, 70}

Pad(c, n) == [i \in 1..n |-> c]

Labels == Heads \cup {h \o Pad(c, n) : h \in Heads, c \in PadChars, n \in PadLens}

IdleName == label = <<>> /\ kind = "idle" /\ names = <<>> /\ raised = FALSE

IdleInfer == series = <<>> /\ column_types_mapping = <<>> /\ dtype_dict = <<>>

IdleMig ==
    /\ pc = "idle" /\ workbook = <<>> /\ idx = 0 /\ written = 0 /\ db = <<>>
    /\ stats = <<>> /\ outcome = <<>> /\ rerun = FALSE /\ firstRun = <<>>

InitName ==
    /\ label \in Labels
    /\ kind \in {"table", "column"}
    /\ names = <<>>
    /\ raised = FALSE
    /\ IdleInfer
    /\ IdleMig

Raises(k, s) == k = "table" /\ clean_table_name_raises(s)

Sanitized(k, s) == IF k = "table" THEN clean_table_name(s) ELSE clean_column_name(s)

Sanitize ==
    /\ kind \in {"table", "column"}
    /\ names = <<>> /\ ~raised
    /\ IF Raises(kind, label)
          THEN raised' = TRUE /\ names' = names
          ELSE raised' = FALSE /\ names' = <<Sanitized(kind, label)>>
    /\ UNCHANGED <<label, kind, inferVars, migVars>>

SanitizeAgain ==
    /\ kind \in {"table", "column"}
    /\ Len(names) = 1 /\ ~raised
    /\ IF Raises(kind, names[1])
          THEN raised' = TRUE /\ names' = names
          ELSE raised' = FALSE /\ names' = Append(names, Sanitized(kind, names[1]))
    /\ UNCHANGED <<label, kind, inferVars, migVars>>

NextName == Sanitize \/ SanitizeAgain

SpecName == InitName /\ [][NextName]_vars

\* C8: name sanitization is idempotent: whenever a label yields a name,
\* sanitizing that name again yields the same name.
C8_SanitizeIdempotent == Len(names) = 2 => names[2] = names[1]

\* The characters of [a-z0-9_] among the tokens of the model
IdentChars == LowerLetters \cup {"7", "_"}

\* C9: every identifier sanitization produces, table or column name, consists
\* only of characters in [a-z0-9_] and is at most 64 characters long.
C9_IdentifierCharsetAndLength ==
    \A n \in 1..Len(names) :
        /\ Len(names[n]) <= 64
        /\ \A i \in 1..Len(names[n]) : names[n][i] \in IdentChars

\* ------------------------------------------------------------------------
\* Storage type descriptors (sqlalchemy.types)
\* ------------------------------------------------------------------------
SMALLINT == [type |-> "SMALLINT"]

INTEGER == [type |-> "INTEGER"]

BIGINT == [type |-> "BIGINT"]

BOOLEAN_T == [type |-> "BOOLEAN_T"]

DATETIME == [type |-> "DATETIME"]

TEXT == [type |-> "TEXT"]

DECIMAL(p, s) == [type |-> "DECIMAL", precision |-> p, scale |-> s]

String(n) == [type |-> "VARCHAR", length |-> n]

\* ------------------------------------------------------------------------
\* infer_mysql_type
\* ------------------------------------------------------------------------
RECURSIVE SeqMax(_)
SeqMax(s) ==
    IF Len(s) = 1 THEN s[1]
    ELSE LET m == SeqMax(Tail(s)) IN IF s[1] > m THEN s[1] ELSE m

\* integer_type with the first comparison off by one
integer_type_inclusive(max_val) ==
    IF max_val <= 127 THEN SMALLINT
    ELSE IF max_val < 32767 THEN INTEGER
    ELSE BIGINT

\* the integer branch, from max_val
integer_type(max_val) ==
    IF max_val < 127 THEN SMALLINT
    ELSE IF max_val < 32767 THEN INTEGER
    ELSE BIGINT

\* len(str(x)) of one cell of an object column: a string of the given length,
\* a missing value (rendered "nan") or None (rendered "None")
StrLen(cell) ==
    CASE cell.kind = "str"  -> cell.len
      [] cell.kind = "nan"  -> 3
      [] cell.kind = "none" -> 4

\* series.astype(str).str.len().max(), with the default taken when it is NaN
\* (the maximum of an empty series) or 0
max_length_of(values) ==
    IF Len(values) = 0 THEN 255
    ELSE LET m == SeqMax([i \in 1..Len(values) |-> StrLen(values[i])])
         IN  IF m = 0 THEN 255 ELSE m

\* string_type with round-half-up in place of int()
string_type_rounding(max_length) ==
    IF max_length > 5000 THEN TEXT
    ELSE IF max_length > 1000 THEN String(5000)
    ELSE String(Min((max_length * 3 + 1) \div 2, 1000))

\* the string branch, from max_length; int(max_length * 1.5) truncates
string_type(max_length) ==
    IF max_length > 5000 THEN TEXT
    ELSE IF max_length > 1000 THEN String(5000)
    ELSE String(Min((max_length * 3) \div 2, 1000))

infer_mysql_type(s, column_name, mapping) ==
    IF column_name \in DOMAIN mapping THEN mapping[column_name]
    ELSE CASE s.dtype = "int64" ->
                  integer_type(IF Len(s.values) > 0 THEN SeqMax(s.values) ELSE 0)
           [] s.dtype = "float64" -> DECIMAL(15, 4)
           [] s.dtype = "bool" -> BOOLEAN_T
           [] s.dtype = "datetime64" -> DATETIME
           [] OTHER -> string_type(max_length_of(s.values))

\* schema_type looking the raw label up instead of the cleaned name
schema_type_raw_label(s, mapping) == infer_mysql_type(s, s.label, mapping)

\* migrate_sheet_to_table cleans df.columns, then create_dtype_dict looks each
\* cleaned name up: the type of one column of the schema
schema_type(s, mapping) == infer_mysql_type(s, clean_column_name(s.label), mapping)

\* ------------------------------------------------------------------------
\* SpecInfer: one column, its type inferred by a direct call of
\* infer_mysql_type or as part of the schema of a non-empty sheet.
\* ------------------------------------------------------------------------
MaxColLen == 2

IntVals == {-40000, -32768, -1, 0, 126, 127, 32766, 32767, 40000}

TextLens == {0, 1, 5, 10, 255, 666, 667, 800, 1000, 1001, 1500, 5000, 5001, 6000}

ObjectCells ==
    {[kind |-> "str", len |-> n] : n \in TextLens}
        \cup {[kind |-> "nan", len |-> 0], [kind |-> "none", len |-> 0]}

SeqsUpTo(S, n) == UNION {[1..k -> S] : k \in 0..n}

ColumnValues(dtype) ==
    CASE dtype = "int64"      -> SeqsUpTo(IntVals, MaxColLen)
      [] dtype = "float64"    -> SeqsUpTo({"1.5", "1e20", "nan"}, 1)
      [] dtype = "bool"       -> SeqsUpTo({"True", "False"}, 1)
      [] dtype = "datetime64" -> SeqsUpTo({"2025-01-30", "NaT"}, 1)
      [] dtype = "object"     -> SeqsUpTo(ObjectCells, MaxColLen)

Dtypes == {"int64", "float64", "bool", "datetime64", "object"}

ColLabels == {<<"a">>, <<" ", "a">>, <<"a", "-", "a">>, <<"a", " ", "a">>, <<"A">>}

Map1(k, d) == [x \in {k} |-> d]

Mappings ==
    { <<>>,
      Map1(<<"a">>, TEXT),
      Map1(<<"a", "_", "a">>, DECIMAL(10, 2)),
      Map1(<<"a", " ", "a">>, INTEGER),
      Map1(<<"a">>, String(100)) @@ Map1(<<"A">>, BOOLEAN_T) }

InitInfer ==
    /\ \E l \in ColLabels, d \in Dtypes :
          \E v \in ColumnValues(d) : series = [label |-> l, dtype |-> d, values |-> v]
    /\ column_types_mapping \in Mappings
    /\ dtype_dict = <<>>
    /\ IdleName
    /\ IdleMig

\* infer_mysql_type(series, column_name) called on the column as it is
InferDirect ==
    /\ series /= <<>> /\ dtype_dict = <<>>
    /\ dtype_dict' = << [name |-> series.label,
                         type |-> infer_mysql_type(series, series.label,
                                                   column_types_mapping),
                         via  |-> "infer_mysql_type"] >>
    /\ UNCHANGED <<series, column_types_mapping, nameVars, migVars>>

\* the schema step of migrate_sheet_to_table, reached only when rows > 0
BuildSchema ==
    /\ series /= <<>> /\ dtype_dict = <<>>
    /\ Len(series.values) > 0
    /\ dtype_dict' = << [name |-> clean_column_name(series.label),
                         type |-> schema_type(series, column_types_mapping),
                         via  |-> "migrate_sheet_to_table"] >>
    /\ UNCHANGED <<series, column_types_mapping, nameVars, migVars>>

NextInfer == InferDirect \/ BuildSchema

SpecInfer == InitInfer /\ [][NextInfer]_vars

Inferred == dtype_dict /= <<>>

NoOverride == Inferred /\ dtype_dict[1].name \notin DOMAIN column_types_mapping

SetMax(S) == CHOOSE m \in S : \A x \in S : x <= m

Values == {series.values[i] : i \in 1..Len(series.values)}

\* the column's maximum, 0 for a column of no values
MaxValue == IF Values = {} THEN 0 ELSE SetMax(Values)

\* C1: an all-integer column without an override gets SmallInt when
\* max_value < 127, Int when 127 <= max_value < 32767, BigInt when
\* max_value >= 32767 (126 SmallInt, 127 Int, 32766 Int, 32767 BigInt).
C1_IntegerThresholds ==
    (NoOverride /\ series.dtype = "int64") =>
        /\ MaxValue < 127 => dtype_dict[1].type = SMALLINT
        /\ (127 <= MaxValue /\ MaxValue < 32767) => dtype_dict[1].type = INTEGER
        /\ MaxValue >= 32767 => dtype_dict[1].type = BIGINT
        /\ MaxValue = 126 => dtype_dict[1].type.type = "SMALLINT"
        /\ MaxValue = 127 => dtype_dict[1].type.type = "INTEGER"
        /\ MaxValue = 32766 => dtype_dict[1].type.type = "INTEGER"
        /\ MaxValue = 32767 => dtype_dict[1].type.type = "BIGINT"

C1_Witness ==
    /\ NoOverride /\ series.dtype = "int64" /\ Len(series.values) = 2
    /\ MaxValue = 127 /\ dtype_dict[1].type = INTEGER

\* the longest string-rendered value of the column; 0 or undefined gives 255
RenderedLen(cell) ==
    IF cell.kind = "str" THEN cell.len ELSE IF cell.kind = "nan" THEN 3 ELSE 4

MaxLength ==
    LET lens == {RenderedLen(c) : c \in Values}
    IN  IF lens = {} \/ SetMax(lens) = 0 THEN 255 ELSE SetMax(lens)

RoundHalfUp15(n) == (3 * n + 1) \div 2

RoundHalfEven15(n) ==
    IF (3 * n) % 2 = 0 THEN (3 * n) \div 2
    ELSE LET f == (3 * n - 1) \div 2 IN IF f % 2 = 0 THEN f ELSE f + 1

\* C2 as stated: a text column without an override gets Text when
\* max_length > 5000, VarChar(5000) when 1000 < max_length <= 5000, and
\* otherwise VarChar(min(round(max_length * 1.5), 1000)), under either
\* reading of round (half up, or half to even).
C2_TextRounded ==
    (NoOverride /\ series.dtype = "object") =>
        /\ MaxLength > 5000 => dtype_dict[1].type = TEXT
        /\ (1000 < MaxLength /\ MaxLength <= 5000) => dtype_dict[1].type = String(5000)
        /\ MaxLength <= 1000 =>
              dtype_dict[1].type \in {String(Min(RoundHalfUp15(MaxLength), 1000)),
                                      String(Min(RoundHalfEven15(MaxLength), 1000))}

\* C2 amended: the same, with the buffered length truncated instead of
\* rounded: VarChar(min(floor(max_length * 1.5), 1000)); 10 gives VarChar(15),
\* 800 VarChar(1000), 1500 VarChar(5000), 6000 Text.
C2_TextTruncated ==
    (NoOverride /\ series.dtype = "object") =>
        /\ MaxLength > 5000 => dtype_dict[1].type = TEXT
        /\ (1000 < MaxLength /\ MaxLength <= 5000) => dtype_dict[1].type = String(5000)
        /\ MaxLength <= 1000 =>
              /\ dtype_dict[1].type.type = "VARCHAR"
              /\ LET n == dtype_dict[1].type.length IN
                 IF 3 * MaxLength >= 2000 THEN n = 1000
                 ELSE 2 * n <= 3 * MaxLength /\ 3 * MaxLength < 2 * n + 2
        /\ MaxLength = 10 => dtype_dict[1].type = String(15)
        /\ MaxLength = 800 => dtype_dict[1].type = String(1000)
        /\ MaxLength = 1500 => dtype_dict[1].type = String(5000)
        /\ MaxLength = 6000 => dtype_dict[1].type = TEXT

C2_Witness ==
    /\ NoOverride /\ series.dtype = "object" /\ Len(series.values) = 2
    /\ MaxLength = 5 /\ dtype_dict[1].type = String(7)

\* C3: in the schema built for a sheet, a column whose sanitized name has an
\* entry in the override map gets exactly the declared descriptor, whatever
\* the column holds.
C3_OverridePrecedence ==
    (Inferred /\ dtype_dict[1].via = "migrate_sheet_to_table") =>
        /\ dtype_dict[1].name = clean_column_name(series.label)
        /\ dtype_dict[1].name \in DOMAIN column_types_mapping =>
              dtype_dict[1].type = column_types_mapping[dtype_dict[1].name]

C3_Witness ==
    /\ Inferred /\ dtype_dict[1].via = "migrate_sheet_to_table"
    /\ series.label = <<" ", "a">> /\ series.dtype = "int64"
    /\ MaxValue = 40000
    /\ <<"a">> \in DOMAIN column_types_mapping
    /\ dtype_dict[1].type = TEXT

\* the signed range of each integer class; every value of an int64 column
\* lies in BigInt's range
InRange(t, v) ==
    CASE t = SMALLINT -> -32768 <= v /\ v <= 32767
      [] t = INTEGER  -> -2147483647 - 1 <= v /\ v <= 2147483647
      [] t = BIGINT   -> TRUE
      [] OTHER        -> FALSE

\* C10: integer inference is lossless: every value of an all-integer column
\* without an override lies within the signed range of the inferred class.
C10_IntegerLossless ==
    (NoOverride /\ series.dtype = "int64") =>
        \A v \in Values : InRange(dtype_dict[1].type, v)

\* ------------------------------------------------------------------------
\* Spec: migrate_all.  The destination is a function from the names of the
\* tables that exist to their row counts.
\* ------------------------------------------------------------------------
MaxSheets == 3

\* to_sql(chunksize=1000)
chunksize == 1000

RowChoices == {0, 1000, 1001}

\* The sheet names of the workbook, by position: the first two clean to the
\* same table name, the third begins with a digit, the fourth is U+0130.
BaseSheetNames == << <<"a", " ", "a">>, <<"a", "-", "a">>, <<"7">>, <<"U+0130">> >>

SheetName(i) ==
    BaseSheetNames[((i - 1) % Len(BaseSheetNames)) + 1]
        \o Pad("a", (i - 1) \div Len(BaseSheetNames))

Workbooks ==
    UNION {{[i \in 1..n |-> [name |-> SheetName(i), rows |-> r[i]]] :
               r \in [1..n -> RowChoices]} : n \in 1..MaxSheets}

\* what the destination holds before the first run: nothing, or a table of
\* the first sheet's table name left by something else
InitialTables == {<<>>, Map1(clean_table_name(SheetName(1)), 5000)}

NewStats == [total_sheets |-> 0, successful |-> 0, failed |-> 0, total_rows |-> 0]

Pending(w) == [i \in 1..Len(w) |-> "pending"]

Init ==
    /\ workbook \in Workbooks
    /\ pc = "start"
    /\ idx = 0
    /\ written = 0
    /\ db \in InitialTables
    /\ stats = NewStats
    /\ outcome = Pending(workbook)
    /\ rerun = FALSE
    /\ firstRun = <<>>
    /\ IdleName
    /\ IdleInfer

Sheet == workbook[idx]

Table == clean_table_name(Sheet.name)

\* if_exists='replace' with the table dropped but not yet created again
drop_table(d, t) == [x \in DOMAIN d \ {t} |-> d[x]]

\* if_exists='append': an existing table and its rows are kept
append_table(d, t) == IF t \in DOMAIN d THEN d ELSE (t :> 0) @@ d

\* if_exists='replace': the table is dropped and created empty
replace_table(d, t) == (t :> 0) @@ drop_table(d, t)

\* migrate_sheet_to_table returns and the for loop of migrate_all counts it
Return(success, printed) ==
    /\ outcome' = [outcome EXCEPT ![idx] = printed]
    /\ stats' = IF success
                   THEN [stats EXCEPT !.successful = @ + 1]
                   ELSE [stats EXCEPT !.failed = @ + 1]
    /\ idx' = idx + 1
    /\ written' = 0
    /\ pc' = "loop"

ConnectMysql ==
    /\ pc = "start"
    /\ \/ pc' = "connected"
       \/ pc' = "done"
    /\ UNCHANGED <<workbook, idx, written, db, stats, outcome, rerun, firstRun>>
    /\ UNCHANGED <<nameVars, inferVars>>

ReadExcelSheets ==
    /\ pc = "connected"
    /\ \/ /\ pc' = "loop"
          /\ idx' = 1
          /\ stats' = [stats EXCEPT !.total_sheets = Len(workbook)]
       \/ /\ pc' = "done"
          /\ UNCHANGED <<idx, stats>>
    /\ UNCHANGED <<workbook, written, db, outcome, rerun, firstRun>>
    /\ UNCHANGED <<nameVars, inferVars>>

\* migrate_sheet_to_table up to the call of to_sql
MigrateSheetBegin ==
    /\ pc = "loop" /\ idx <= Len(workbook)
    /\ \/ \* read_excel, or the cleaning or typing of the columns, raises
          /\ Return(FALSE, "failed")
       \/ \* the sheet is read and has no rows
          /\ Sheet.rows = 0
          /\ Return(FALSE, "skipped")
       \/ \* the sheet is read, its columns cleaned and typed
          /\ Sheet.rows > 0
          /\ ~clean_table_name_raises(Sheet.name)
          /\ pc' = "to_sql"
          /\ written' = 0
          /\ UNCHANGED <<idx, stats, outcome>>
    /\ UNCHANGED <<workbook, db, rerun, firstRun>>
    /\ UNCHANGED <<nameVars, inferVars>>

\* to_sql: the table is replaced
ToSqlReplace ==
    /\ pc = "to_sql"
    /\ \/ \* the destination fails before anything is dropped
          /\ db' = db
          /\ Return(FALSE, "failed")
       \/ \* the old table is dropped and the new one cannot be created
          /\ db' = drop_table(db, Table)
          /\ Return(FALSE, "failed")
       \/ /\ db' = replace_table(db, Table)
          /\ pc' = "insert"
          /\ UNCHANGED <<idx, stats, outcome, written>>
    /\ UNCHANGED <<workbook, rerun, firstRun>>
    /\ UNCHANGED <<nameVars, inferVars>>

\* to_sql: one batch of at most chunksize rows; after the last one
\* migrate_sheet_to_table returns True
ToSqlInsertBatch ==
    /\ pc = "insert"
    /\ \/ LET n == Min(chunksize, Sheet.rows - written) IN
          /\ db' = [db EXCEPT ![Table] = @ + n]
          /\ IF written + n = Sheet.rows
                THEN Return(TRUE, "loaded")
                ELSE /\ written' = written + n
                     /\ UNCHANGED <<pc, idx, stats, outcome>>
       \/ \* the batch fails and the batches written before it stay
          /\ db' = db
          /\ Return(FALSE, "failed")
       \/ \* the batch fails and the transaction's inserts are rolled back
          /\ db' = [db EXCEPT ![Table] = @ - written]
          /\ Return(FALSE, "failed")
    /\ UNCHANGED <<workbook, rerun, firstRun>>
    /\ UNCHANGED <<nameVars, inferVars>>

\* the end of migrate_all: duration, summary, connection closed
FinishRun ==
    /\ pc = "loop" /\ idx > Len(workbook)
    /\ pc' = "done"
    /\ UNCHANGED <<workbook, idx, written, db, stats, outcome, rerun, firstRun>>
    /\ UNCHANGED <<nameVars, inferVars>>

\* the script is run a second time on the same workbook and destination
RunAgain ==
    /\ pc = "done" /\ ~rerun
    /\ rerun' = TRUE
    /\ firstRun' = outcome
    /\ pc' = "start"
    /\ idx' = 0
    /\ written' = 0
    /\ stats' = NewStats
    /\ outcome' = Pending(workbook)
    /\ UNCHANGED <<workbook, db>>
    /\ UNCHANGED <<nameVars, inferVars>>

Next ==
    \/ ConnectMysql
    \/ ReadExcelSheets
    \/ MigrateSheetBegin
    \/ ToSqlReplace
    \/ ToSqlInsertBatch
    \/ FinishRun
    \/ RunAgain

Spec == Init /\ [][Next]_vars

Sheets == 1..Len(workbook)

With(status) == {i \in Sheets : outcome[i] = status}

RECURSIVE SumRows(_)
SumRows(S) ==
    IF S = {} THEN 0
    ELSE LET i == CHOOSE x \in S : TRUE IN workbook[i].rows + SumRows(S \ {i})

\* the for loop has been entered: connection and workbook were available
InLoop == pc \in {"loop", "to_sql", "insert"} \/ (pc = "done" /\ stats.total_sheets > 0)

\* C4: once connection and workbook are available every sheet is attempted
\* once, in workbook order, whatever the earlier outcomes; and at the end the
\* summary's successful count is the number of sheets loaded and its failed
\* count the number of sheets whose load failed.
C4_FailureIsolation ==
    InLoop =>
        /\ pc /= "done" => \A i \in Sheets : (outcome[i] /= "pending") <=> (i < idx)
        /\ pc = "done" =>
              /\ \A i \in Sheets : outcome[i] \in {"skipped", "loaded", "failed"}
              /\ stats.successful = Cardinality(With("loaded"))
              /\ stats.failed = Cardinality(With("failed"))

\* C5: a sheet with zero rows yields a Skipped outcome, recorded as a skip
\* and not as a failure, and nothing is written to the destination between
\* reading it and moving on to the next sheet.
C5_EmptySheetSkipped ==
    [][(pc = "loop" /\ idx <= Len(workbook) /\ workbook[idx].rows = 0
            /\ outcome'[idx] = "skipped")
        => (/\ db' = db
            /\ idx' = idx + 1
            /\ stats'.failed = stats.failed
            /\ stats'.successful = stats.successful)]_vars

\* C6: the summary's total_rows is the sum of the row counts of the sheets
\* loaded in the run.
C6_TotalRows == pc = "done" => stats.total_rows = SumRows(With("loaded"))

\* C7: replace semantics: when a load has succeeded the destination table
\* holds exactly the sheet's rows, in the second run as in the first and
\* whatever the table held before; while the batches are written the table
\* holds only the rows written so far.
C7_ReplaceNotAppend ==
    /\ (pc = "loop" /\ idx > 1 /\ outcome[idx - 1] = "loaded") =>
          LET t == clean_table_name(workbook[idx - 1].name) IN
          t \in DOMAIN db /\ db[t] = workbook[idx - 1].rows
    /\ pc = "insert" =>
          /\ Table \in DOMAIN db /\ db[Table] = written
          /\ written < Sheet.rows
          /\ written % 1000 = 0

C7_Witness ==
    /\ rerun /\ pc = "loop" /\ idx = 2
    /\ firstRun[1] = "loaded" /\ outcome[1] = "loaded"
    /\ Len(firstRun) = 1
    /\ workbook[1].rows = 1001
    /\ db[clean_table_name(workbook[1].name)] = 1001

====
